---- MODULE Spec2Model ----
(***************************************************************************)
(* A model of yesh (src/src/yesh.rs): the scrollback, the command buffer,  *)
(* the derived line and command views, the cursor, the scroll offset and   *)
(* the single supervised child, driven by process_events, one input event  *)
(* per cycle.                                                              *)
(*                                                                         *)
(* Characters are one-character strings; the control characters that have  *)
(* no TLA+ escape are written by their ASCII names.  An Option is a        *)
(* sequence of length at most one: None is << >>, Some(v) is << v >>.      *)
(***************************************************************************)
EXTENDS Integers, Sequences, FiniteSets, TLC

VARIABLES
    window_size,         \* Size { lines, columns }
    command,             \* Vec<WideChar>
    command_views,       \* Vec<CommandView>
    lines,               \* Vec<Vec<ComplexChar>>: the scrollback
    line_views,          \* Vec<LineView>
    cursor_position,     \* Origin { x, y }
    scroll_offset,       \* i32
    control_c_semaphore, \* Arc<AtomicBool>
    should_exit,         \* bool
    running_child,       \* Option<Child>, with the child's pipes and what it has done
    pc,                  \* where the main loop is: "events", "read", "returned", "panicked"
    spawned,             \* how many children Command::spawn has created so far
    event,               \* the input event of the latest process_events cycle
    before,              \* what that cycle found when it began
    typed                \* Some(the characters typed so far) while nothing but printable
                         \* characters has been typed since construction, else None

vars == <<window_size, command, command_views, lines, line_views, cursor_position,
          scroll_offset, control_c_semaphore, should_exit, running_child, pc, spawned,
          event, before, typed>>

-----------------------------------------------------------------------------
(* Bounds of the model. *)

\* window widths range over PromptLen + 1 .. MaxWidth
MaxWidth == 4
\* window heights range over 1 .. MaxHeight
MaxHeight == 2
\* a printable character is typed only while the command buffer is shorter than this
MaxCommand == 2
\* a newline is typed only while the scrollback holds fewer lines than this
MaxLines == 1
\* a child writes at most this many characters, over both of its streams
MaxChildOutput == 1
\* an event that can scroll down (a move down or right, a typed character) comes only
\* while the scroll offset is below this
MaxScroll == 4
\* the width of the window in which the sample command lines are typed
WideColumns == 10

-----------------------------------------------------------------------------
(* Characters. *)

LineFeed == "\n"
ETX == "ETX"
EOT == "EOT"
BackSpace == "BS"
DEL == "DEL"
ControlCharacters == {LineFeed, ETX, EOT, BackSpace, DEL}

\* char::is_control
is_control(character) == character \in ControlCharacters

\* char::is_whitespace, on the characters of the model
is_whitespace(character) == character \in {" ", "\t", LineFeed}

None == << >>
Some(v) == << v >>

Min(a, b) == IF a <= b THEN a ELSE b
Max(a, b) == IF a >= b THEN a ELSE b
\* Ord::clamp
clamp(v, lo, hi) == IF v < lo THEN lo ELSE IF v > hi THEN hi ELSE v

\* Vec::insert and Vec::remove, 0-based as in the source
insert(vec, index, v) == SubSeq(vec, 1, index) \o << v >> \o SubSeq(vec, index + 1, Len(vec))
remove(vec, index) == SubSeq(vec, 1, index) \o SubSeq(vec, index + 2, Len(vec))

prompt == << "%", " " >>
PromptLen == Len(prompt)

info_message == <<
    " "," "," "," ","y","e","s","h"," "," ","C","o","p","y","r","i","g","h","t"," ","(","C",")",
    " ","2","0","2","3"," ","b","i","t","6","9","t","r","e","a","m","\n"," "," "," "," ","T",
    "h","i","s"," ","p","r","o","g","r","a","m"," ","c","o","m","e","s"," ","w","i","t","h"," ",
    "A","B","S","O","L","U","T","E","L","Y"," ","N","O"," ","W","A","R","R","A","N","T","Y",";",
    "\n"," "," "," "," ","T","h","i","s"," ","i","s"," ","f","r","e","e"," ","s","o","f","t",
    "w","a","r","e",","," ","a","n","d"," ","y","o","u"," ","a","r","e"," ","w","e","l","c","o",
    "m","e"," ","t","o"," ","r","e","d","i","s","t","r","i","b","u","t","e"," ","i","t"," ","u",
    "n","d","e","r"," ","c","e","r","t","a","i","n"," ","c","o","n","d","i","t","i","o","n","s",
    ";","\n"," "," "," "," ","S","e","e"," ","<","h","t","t","p","s",":","/","/","w","w","w",
    ".","g","n","u",".","o","r","g","/","l","i","c","e","n","s","e","s","/",">"
>>

\* "yesh: ERROR: Failed to launch command: ", the text every launch failure message
\* starts with, abbreviated to its first word: none of its characters is a line break
error_message_prefix == << "y", "e", "s", "h", ":" >>

\* io::Error::to_string() of the failed spawn: the operating system's text, which holds
\* no line break; the model keeps its first character
OsErrorTexts == { << "N" >> }

-----------------------------------------------------------------------------
(* The View Builder. *)

RECURSIVE wrap_line_same_offset(_, _, _, _, _)
\* the loop of rebuild_line_views without its step of the offset
wrap_line_same_offset(y, index, remaining_width, offset, columns) ==
    LET view_width == Min(columns, remaining_width)
        view == [y |-> y, width |-> view_width, index |-> index, offset |-> offset]
    IN  IF remaining_width - view_width <= 0
        THEN << view >>
        ELSE << view >> \o wrap_line_same_offset(y + 1, index, remaining_width - view_width,
                                                 offset, columns)

RECURSIVE wrap_line(_, _, _, _, _)
\* the loop of rebuild_line_views for one line: at least one view, also for an empty line
wrap_line(y, index, remaining_width, offset, columns) ==
    LET view_width == Min(columns, remaining_width)
        view == [y |-> y, width |-> view_width, index |-> index, offset |-> offset]
    IN  IF remaining_width - view_width <= 0
        THEN << view >>
        ELSE << view >> \o wrap_line(y + 1, index, remaining_width - view_width,
                                     offset + view_width, columns)

RECURSIVE wrap_lines(_, _, _, _)
\* the for loop of rebuild_line_views from line number index (0-based) on, at row y
wrap_lines(all_lines, index, y, columns) ==
    IF index >= Len(all_lines)
    THEN << >>
    ELSE LET views == wrap_line(y, index, Len(all_lines[index + 1]), 0, columns)
         IN  views \o wrap_lines(all_lines, index + 1, y + Len(views), columns)

rebuild_line_views(s) ==
    [s EXCEPT !.line_views = wrap_lines(s.lines, 0, 0, s.window_size.columns)]

RECURSIVE wrap_command_without_prompt(_, _, _, _, _)
\* the loop of rebuild_command_views giving the first row the whole width
wrap_command_without_prompt(y, count, remaining_width, offset, columns) ==
    LET view_width == Min(remaining_width, columns)
        view == [y |-> y, width |-> view_width, offset |-> offset]
    IN  IF remaining_width - view_width <= 0
        THEN << view >>
        ELSE << view >> \o wrap_command_without_prompt(y + 1, count + 1,
                                                       remaining_width - view_width,
                                                       offset + view_width, columns)

RECURSIVE wrap_command(_, _, _, _, _)
\* the loop of rebuild_command_views; count is command_views.len() so far
wrap_command(y, count, remaining_width, offset, columns) ==
    LET max_view_width == IF count = 0 THEN columns - PromptLen ELSE columns
        view_width == Min(remaining_width, max_view_width)
        view == [y |-> y, width |-> view_width, offset |-> offset]
    IN  IF remaining_width - view_width <= 0
        THEN << view >>
        ELSE << view >> \o wrap_command(y + 1, count + 1, remaining_width - view_width,
                                        offset + view_width, columns)

rebuild_command_views(s) ==
    LET y == IF Len(s.line_views) > 0 THEN s.line_views[Len(s.line_views)].y + 1 ELSE 0
    IN  [s EXCEPT !.command_views =
            wrap_command(y, 0, Len(s.command), 0, s.window_size.columns)]

-----------------------------------------------------------------------------
(* The Scroll Controller and the cursor movements.  s is the whole Yesh     *)
(* value as a record; s.panicked is set where the Rust code panics.         *)

maximum_possible_y(s) ==
    LET maximum_line_views_y ==
            IF Len(s.line_views) > 0 THEN s.line_views[Len(s.line_views)].y ELSE 0
        maximum_command_views_y ==
            IF Len(s.command_views) > 0 THEN s.command_views[Len(s.command_views)].y ELSE 0
    IN  IF s.running_child # None
        THEN maximum_line_views_y
        ELSE IF Len(s.command_views) = 0 /\ Len(s.line_views) > 0
             THEN maximum_line_views_y + 1
             ELSE maximum_command_views_y + 1

is_y_on_screen(s, y) ==
    (y >= s.scroll_offset) /\ ((y - s.scroll_offset) < s.window_size.lines)

advance_cursor_down(s) ==
    LET y  == clamp(s.cursor_position.y + 1, 0, maximum_possible_y(s))
        s1 == [s EXCEPT !.cursor_position.y = y]
    IN  IF ~is_y_on_screen(s1, y)
        THEN [s1 EXCEPT !.scroll_offset = @ + 1]
        ELSE s1

advance_cursor_up(s) ==
    LET y  == clamp(s.cursor_position.y - 1, 0, maximum_possible_y(s))
        s1 == [s EXCEPT !.cursor_position.y = y]
    IN  IF ~is_y_on_screen(s1, y)
        THEN [s1 EXCEPT !.scroll_offset = @ - 1]
        ELSE s1

advance_cursor_left(s) ==
    LET s1 == [s EXCEPT !.cursor_position.x = @ - 1]
    IN  IF s1.cursor_position.x < 0 /\ s1.cursor_position.y > 0
        THEN advance_cursor_up([s1 EXCEPT !.cursor_position.x = s.window_size.columns])
        ELSE s1

advance_cursor_right(s) ==
    LET s1 == [s EXCEPT !.cursor_position.x = @ + 1]
    IN  IF s1.cursor_position.x >= s.window_size.columns
        THEN [advance_cursor_down(s1) EXCEPT !.cursor_position.x = 0]
        ELSE s1

-----------------------------------------------------------------------------
(* The Cursor/Index Mapper. *)

\* Iterator::position: the 0-based index of the first view on the cursor's row
focused_command_view_index(s) ==
    LET hits == {i \in 1..Len(s.command_views) : s.command_views[i].y = s.cursor_position.y}
    IN  IF hits = {} THEN None
        ELSE Some((CHOOSE i \in hits : \A j \in hits : i <= j) - 1)

command_view_width(s, index) ==
    IF index = 0
    THEN s.command_views[index + 1].width + PromptLen
    ELSE s.command_views[index + 1].width

\* Iterator::find: the first line view on the cursor's row
focused_line_view(s) ==
    LET hits == {i \in 1..Len(s.line_views) : s.line_views[i].y = s.cursor_position.y}
    IN  IF hits = {} THEN None
        ELSE Some(s.line_views[CHOOSE i \in hits : \A j \in hits : i <= j])

command_index_at_cursor(s) ==
    LET view_index == focused_command_view_index(s)
    IN  IF view_index = None
        THEN LET maximum_command_view_y ==
                     IF Len(s.command_views) = 0 THEN 0
                     ELSE CHOOSE m \in {s.command_views[i].y : i \in 1..Len(s.command_views)} :
                              \A i \in 1..Len(s.command_views) : s.command_views[i].y <= m
             IN  IF Len(s.command_views) = 0
                 THEN Some(0)
                 ELSE IF /\ s.cursor_position.y > maximum_command_view_y
                         /\ command_view_width(s, Len(s.command_views) - 1)
                                = s.window_size.columns
                      THEN Some(Len(s.command) - 1)
                      ELSE None
        ELSE LET vi == view_index[1]
             IN  IF vi = 0 /\ s.cursor_position.x < PromptLen
                 THEN None
                 ELSE LET index == s.command_views[vi + 1].offset
                                   + (IF vi = 0 THEN s.cursor_position.x - PromptLen
                                      ELSE s.cursor_position.x)
                      IN  Some(clamp(index, 0, Len(s.command)))

\* is_cursor_on_command_prompt without its look at the child
is_cursor_on_command_prompt_ignoring_child(s) ==
    IF Len(s.line_views) = 0
    THEN TRUE
    ELSE s.cursor_position.y > s.line_views[Len(s.line_views)].y

is_cursor_on_command_prompt(s) ==
    IF s.running_child # None
    THEN FALSE
    ELSE IF Len(s.line_views) = 0
         THEN TRUE
         ELSE s.cursor_position.y > s.line_views[Len(s.line_views)].y

\* Rust's clamp panics when its lower limit exceeds its upper one
clamp_cursor(s) ==
    LET maximum_possible_x == s.window_size.columns - 1
        fcv == focused_command_view_index(s)
        flv == focused_line_view(s)
        unclamped ==
            IF is_cursor_on_command_prompt(s)
            THEN IF fcv # None
                 THEN IF fcv[1] = 0
                      THEN PromptLen + s.command_views[fcv[1] + 1].width
                      ELSE s.command_views[fcv[1] + 1].width
                 ELSE PromptLen
            ELSE IF flv # None THEN flv[1].width ELSE maximum_possible_x
        maximum_allowed_x == clamp(unclamped, 0, maximum_possible_x)
        maximum_allowed_y == s.window_size.lines + s.scroll_offset
    IN  IF maximum_allowed_y < 0
        THEN [s EXCEPT !.cursor_position.x = clamp(@, 0, maximum_allowed_x),
                       !.panicked = TRUE]
        ELSE [s EXCEPT !.cursor_position.x = clamp(@, 0, maximum_allowed_x),
                       !.cursor_position.y = clamp(@, 0, maximum_allowed_y)]

-----------------------------------------------------------------------------
(* Editing the command buffer. *)

delete_character_before_cursor(s) ==
    LET index == command_index_at_cursor(s)
    IN  IF index = None THEN s
        ELSE IF index[1] = 0 THEN s
        ELSE advance_cursor_left(
                 rebuild_command_views([s EXCEPT !.command = remove(@, index[1] - 1)]))

\* Vec::remove panics when the index is not below the length
delete_character_at_cursor(s) ==
    LET index == command_index_at_cursor(s)
    IN  IF index = None THEN s
        ELSE IF index[1] = 0 THEN s
        ELSE IF index[1] >= Len(s.command) THEN [s EXCEPT !.panicked = TRUE]
        ELSE rebuild_command_views([s EXCEPT !.command = remove(@, index[1])])

insert_character_in_command_at_cursor(s, character) ==
    LET index == command_index_at_cursor(s)
    IN  IF index = None THEN s
        ELSE [s EXCEPT !.command = insert(@, index[1], character)]

\* handle_resize without its rebuild of the line views
handle_resize_without_rebuild(s, size) ==
    [s EXCEPT !.window_size = size]

handle_resize(s, size) ==
    rebuild_line_views([s EXCEPT !.window_size = size])

process_key(s, key, size) ==
    CASE key = "Backspace"       -> delete_character_before_cursor(s)
      [] key = "DeleteCharacter" -> delete_character_at_cursor(s)
      [] key = "LeftArrow"       -> advance_cursor_left(s)
      [] key = "RightArrow"      -> advance_cursor_right(s)
      [] key = "UpArrow"         -> advance_cursor_up(s)
      [] key = "DownArrow"       -> advance_cursor_down(s)
      [] key = "ResizeEvent"     -> handle_resize(s, size)
      [] OTHER                   -> s

-----------------------------------------------------------------------------
(* Dispatching a command. *)

RECURSIVE parse_command_from(_, _, _, _)
\* the for loop of parse_command from character number i (1-based) on, and what follows it
parse_command_from(cmd, i, result, current_token) ==
    LET finish == IF Len(current_token) > 0 THEN Append(result, current_token) ELSE result
    IN  IF i > Len(cmd) THEN finish
        ELSE IF is_whitespace(cmd[i])
             THEN parse_command_from(cmd, i + 1, Append(result, current_token), << >>)
        ELSE IF cmd[i] = "#"
             THEN finish
        ELSE parse_command_from(cmd, i + 1, result, Append(current_token, cmd[i]))

parse_command(cmd) == parse_command_from(cmd, 1, << >>, << >>)

RECURSIVE append_from(_, _, _)
\* the for loop of append_to_lines from character number i (1-based) on, and what follows
\* it: the characters up to the next line break are pushed to new_line, which the line
\* break pushes to the lines; what is left in new_line at the end is pushed if not empty
append_from(all_lines, string, i) ==
    LET breaks == {j \in i..Len(string) : string[j] = LineFeed}
    IN  IF breaks = {}
        THEN IF i <= Len(string)
             THEN Append(all_lines, SubSeq(string, i, Len(string)))
             ELSE all_lines
        ELSE LET n == CHOOSE j \in breaks : \A k \in breaks : j <= k
             IN  append_from(Append(all_lines, SubSeq(string, i, n - 1)), string, n + 1)

\* append_to_lines without the line that no line break ends
append_to_lines_dropping_last(s, string) ==
    LET a == append_from(s.lines, string, 1)
    IN  [s EXCEPT !.lines = IF string # << >> /\ string[Len(string)] # LineFeed
                            THEN SubSeq(a, 1, Len(a) - 1)
                            ELSE a]

append_to_lines(s, string) ==
    [s EXCEPT !.lines = append_from(@, string, 1)]

\* the answers Command::spawn can give: a child, or an error with the system's text
SpawnResults ==
    {[ok |-> TRUE, error |-> << >>]} \cup {[ok |-> FALSE, error |-> text] : text \in OsErrorTexts}

\* Command::new(program)...spawn(), given the system's answer: the empty name is no
\* file, so launching it fails whatever else would have succeeded
spawn_program(program, answer) ==
    IF program = << >> /\ answer.ok
    THEN [ok |-> FALSE, error |-> CHOOSE text \in OsErrorTexts : TRUE]
    ELSE answer

\* a freshly spawned child: alive, its three pipes open and empty.  wrote_stdout and
\* wrote_stderr keep everything it has written; first_line is the scrollback length at
\* the spawn
new_child(s, parsed_command) ==
    [pid          |-> s.spawned + 1,
     program      |-> parsed_command[1],
     args         |-> SubSeq(parsed_command, 2, Len(parsed_command)),
     exited       |-> FALSE,
     stdout_open  |-> TRUE,
     stdout       |-> << >>,
     stderr       |-> << >>,
     wrote_stdout |-> << >>,
     wrote_stderr |-> << >>,
     first_line   |-> Len(s.lines)]

\* spawn is the answer Command::spawn gives, should the command come to that
execute_command(s, spawn) ==
    IF ~is_cursor_on_command_prompt(s) THEN s
    ELSE
    LET prompt_line    == prompt \o s.command
        parsed_command == parse_command(s.command)
        s1 == [s EXCEPT !.lines = Append(@, prompt_line),
                        !.command = << >>,
                        !.command_views = << >>]
        s2 == IF Len(parsed_command) > 0
              THEN IF parsed_command[1] = << "i", "n", "f", "o" >>
                   THEN append_to_lines(s1, info_message)
                   ELSE IF parsed_command[1] = << "e", "x", "i", "t" >>
                   THEN [s1 EXCEPT !.should_exit = TRUE]
                   ELSE LET child == spawn_program(parsed_command[1], spawn)
                        IN  IF child.ok
                            THEN [s1 EXCEPT
                                     !.running_child = Some(new_child(s1, parsed_command)),
                                     !.spawned = @ + 1]
                            ELSE append_to_lines(s1, error_message_prefix \o child.error)
              ELSE s1
    IN  rebuild_line_views(s2)

\* process_control_character with ctrl-c ending the session
process_control_character_etx_exits(s, control_character, spawn) ==
    CASE control_character = LineFeed -> execute_command(s, spawn)
      [] control_character = ETX      -> [s EXCEPT !.should_exit = TRUE]
      [] control_character = EOT      -> delete_character_at_cursor(s)
      [] control_character \in {BackSpace, DEL} -> delete_character_before_cursor(s)
      [] OTHER                        -> s

process_control_character(s, control_character, spawn) ==
    CASE control_character = LineFeed -> execute_command(s, spawn)
      [] control_character = ETX      -> s
      [] control_character = EOT      -> delete_character_at_cursor(s)
      [] control_character \in {BackSpace, DEL} -> delete_character_before_cursor(s)
      [] OTHER                        -> s

process_character(s, character, spawn) ==
    IF is_control(character)
    THEN process_control_character(s, character, spawn)
    ELSE IF focused_line_view(s) = None
         THEN advance_cursor_right(
                  rebuild_command_views(insert_character_in_command_at_cursor(s, character)))
         ELSE s

-----------------------------------------------------------------------------
(* The Process Supervisor. *)

\* read_to_string returns at the end of the stream only: this is read_from_child once
\* the child's stdout is closed, with everything the pipe then holds
read_from_child(s) ==
    LET child         == s.running_child[1]
        output_buffer == child.stdout
        s1            == [s EXCEPT !.running_child = Some([child EXCEPT !.stdout = << >>])]
    IN  IF Len(output_buffer) = 0 THEN s1
        ELSE rebuild_line_views(append_to_lines(s1, output_buffer))

\* Child::try_wait and the match on it
reap_child(s) ==
    IF s.running_child # None /\ s.running_child[1].exited
    THEN [s EXCEPT !.running_child = None]
    ELSE s

-----------------------------------------------------------------------------
(* The state, and the input events. *)

\* the Yesh value the variables hold, with where the main loop is
Yesh ==
    [window_size         |-> window_size,
     command             |-> command,
     command_views       |-> command_views,
     lines               |-> lines,
     line_views          |-> line_views,
     cursor_position     |-> cursor_position,
     scroll_offset       |-> scroll_offset,
     control_c_semaphore |-> control_c_semaphore,
     should_exit         |-> should_exit,
     running_child       |-> running_child,
     spawned             |-> spawned,
     pc                  |-> pc,
     panicked            |-> FALSE]

\* the sizes getmaxyx can report: every width leaves room after the prompt
Sizes == [lines : 1..MaxHeight, columns : (PromptLen + 1)..MaxWidth]

\* the keys process_key has an arm for, but for ResizeEvent
EditKeys == {"Backspace", "DeleteCharacter"}
CursorKeys == {"LeftArrow", "RightArrow", "UpArrow", "DownArrow"}

\* the printable characters a user types
Printable == {"a", " ", "#"}

\* what a child writes
ChildCharacters == {"o", LineFeed}

\* what wget_wch returns: Key(key), Character(character), or an error at the timeout
KeyEvent(key)       == [kind |-> "Key", key |-> key, character |-> ""]
CharacterEvent(c)   == [kind |-> "Character", key |-> "", character |-> c]
TimeoutEvent        == [kind |-> "Timeout", key |-> "", character |-> ""]
NoEvent             == [kind |-> "None", key |-> "", character |-> ""]

\* Yesh::new, in a window of the given size
Fresh(size) ==
    /\ window_size = size
    /\ command = << >>
    /\ command_views = << >>
    /\ lines = << >>
    /\ line_views = << >>
    /\ cursor_position = [x |-> PromptLen, y |-> 0]
    /\ scroll_offset = 0
    /\ control_c_semaphore = FALSE
    /\ should_exit = FALSE
    /\ running_child = None
    /\ pc = "events"
    /\ spawned = 0
    /\ event = NoEvent
    /\ before = [child |-> FALSE, control_c |-> FALSE]
    /\ typed = Some(<< >>)

Init == \E size \in Sizes : Fresh(size)

-----------------------------------------------------------------------------
(* process_events. *)

\* the first part of process_events: the event read, and its handler; size is what
\* getmaxyx reports by then
handle_event(s, ev, size, spawn) ==
    CASE ev.kind = "Key"       -> process_key(s, ev.key, size)
      [] ev.kind = "Character" -> process_character(s, ev.character, spawn)
      [] OTHER                 -> IF s.control_c_semaphore
                                  THEN process_control_character(s, ETX, spawn)
                                  ELSE s

\* the answers of Command::spawn that matter to the event: only a newline dispatches
spawn_results_for(ev) ==
    IF ev.kind = "Character" /\ ev.character = LineFeed
    THEN SpawnResults
    ELSE {CHOOSE answer \in SpawnResults : answer.ok}

\* the rest of process_events, from read_from_child on, once that read can return
poll_child(s) ==
    LET s1 == IF s.running_child # None THEN read_from_child(s) ELSE s
    IN  clamp_cursor(reap_child(s1))

\* whether read_from_child, called now, waits: a child holds its stdout open
read_blocks(s) == s.running_child # None /\ s.running_child[1].stdout_open

\* the end of a cycle that left s: a panic ends the program, and the loop of main
\* goes on while process_events returns false
end_cycle(s) ==
    [s EXCEPT !.pc = IF s.panicked THEN "panicked"
                     ELSE IF s.should_exit THEN "returned"
                     ELSE "events"]

\* one call of process_events on the event ev, as far as it gets: it stops inside
\* read_from_child while the child holds its stdout open
run_cycle(s, ev, size, spawn) ==
    LET s1 == handle_event(s, ev, size, spawn)
    IN  IF s1.panicked THEN end_cycle(s1)
        ELSE IF read_blocks(s1) THEN [s1 EXCEPT !.pc = "read"]
        ELSE end_cycle(poll_child(s1))

Store(s) ==
    /\ window_size' = s.window_size
    /\ command' = s.command
    /\ command_views' = s.command_views
    /\ lines' = s.lines
    /\ line_views' = s.line_views
    /\ cursor_position' = s.cursor_position
    /\ scroll_offset' = s.scroll_offset
    /\ control_c_semaphore' = s.control_c_semaphore
    /\ should_exit' = s.should_exit
    /\ running_child' = s.running_child
    /\ spawned' = s.spawned
    /\ pc' = s.pc

\* typed after the event ev
typed_after(ev) ==
    IF typed = None \/ (event.kind = "Character" /\ event.character = LineFeed)
    THEN None
    ELSE IF ev.kind = "Character" /\ ~is_control(ev.character)
         THEN Some(Append(typed[1], ev.character))
    ELSE IF ev.kind = "Character" /\ ev.character = LineFeed
         THEN typed
    ELSE None

\* one cycle of the main loop on the event ev
process_events(ev, size) ==
    /\ pc = "events"
    /\ \E spawn \in spawn_results_for(ev) : Store(run_cycle(Yesh, ev, size, spawn))
    /\ event' = ev
    /\ before' = [child |-> running_child # None, control_c |-> control_c_semaphore]
    /\ typed' = typed_after(ev)

\* read_from_child returns, the stream having ended, and the cycle goes on to its end
ReadFromChildReturns ==
    /\ pc = "read"
    /\ ~read_blocks(Yesh)
    /\ Store(end_cycle(poll_child(Yesh)))
    /\ UNCHANGED <<event, before, typed>>

EditKeyPressed ==
    \E key \in EditKeys : process_events(KeyEvent(key), window_size)

CursorKeyPressed ==
    \E key \in CursorKeys :
        /\ key \in {"DownArrow", "RightArrow"} => scroll_offset < MaxScroll
        /\ process_events(KeyEvent(key), window_size)

WindowResized ==
    \E size \in Sizes \ {window_size} : process_events(KeyEvent("ResizeEvent"), size)

CharacterTyped ==
    \E c \in Printable :
        /\ Len(command) < MaxCommand
        /\ scroll_offset < MaxScroll
        /\ process_events(CharacterEvent(c), window_size)

\* a newline that would dispatch is typed only while the scrollback is short
ControlCharacterTyped ==
    \E c \in ControlCharacters :
        /\ (c = LineFeed /\ running_child = None) => Len(lines) < MaxLines
        /\ process_events(CharacterEvent(c), window_size)

InputTimedOut ==
    process_events(TimeoutEvent, window_size)

-----------------------------------------------------------------------------
(* The environment: the child, and the control-c handler. *)

ShellRuns == pc \in {"events", "read"}

ChildAlive == ShellRuns /\ running_child # None /\ ~running_child[1].exited

ChildWrites ==
    /\ ChildAlive
    /\ Len(running_child[1].wrote_stdout) + Len(running_child[1].wrote_stderr) < MaxChildOutput
    /\ \E c \in ChildCharacters :
        \/ /\ running_child[1].stdout_open
           /\ running_child' = Some([running_child[1] EXCEPT
                                        !.stdout = Append(@, c),
                                        !.wrote_stdout = Append(@, c)])
        \/ running_child' = Some([running_child[1] EXCEPT
                                     !.stderr = Append(@, c),
                                     !.wrote_stderr = Append(@, c)])
    /\ UNCHANGED <<window_size, command, command_views, lines, line_views, cursor_position,
                   scroll_offset, control_c_semaphore, should_exit, pc, spawned, event,
                   before, typed>>

ChildClosesStdout ==
    /\ ChildAlive
    /\ running_child[1].stdout_open
    /\ running_child' = Some([running_child[1] EXCEPT !.stdout_open = FALSE])
    /\ UNCHANGED <<window_size, command, command_views, lines, line_views, cursor_position,
                   scroll_offset, control_c_semaphore, should_exit, pc, spawned, event,
                   before, typed>>

\* exiting closes whatever the child still holds open
ChildExits ==
    /\ ChildAlive
    /\ running_child' = Some([running_child[1] EXCEPT !.exited = TRUE, !.stdout_open = FALSE])
    /\ UNCHANGED <<window_size, command, command_views, lines, line_views, cursor_position,
                   scroll_offset, control_c_semaphore, should_exit, pc, spawned, event,
                   before, typed>>

\* the closure given to ctrlc::set_handler
ControlCHandler ==
    /\ ShellRuns
    /\ ~control_c_semaphore
    /\ control_c_semaphore' = TRUE
    /\ UNCHANGED <<window_size, command, command_views, lines, line_views, cursor_position,
                   scroll_offset, should_exit, running_child, pc, spawned, event, before, typed>>

\* a session of typing, editing and dispatching, with the child and the control-c
\* handler running beside it
Next ==
    \/ EditKeyPressed
    \/ CharacterTyped
    \/ ControlCharacterTyped
    \/ InputTimedOut
    \/ ReadFromChildReturns
    \/ ChildWrites
    \/ ChildClosesStdout
    \/ ChildExits
    \/ ControlCHandler

Spec == Init /\ [][Next]_vars

\* the same session with the cursor keys and the resize events as well
NextAll ==
    \/ Next
    \/ CursorKeyPressed
    \/ WindowResized

SpecAll == Init /\ [][NextAll]_vars

-----------------------------------------------------------------------------
(* A session in a wide window in which the user types one of a few sample    *)
(* command lines, character by character, for the built-in commands.        *)

SampleLines ==
    { << "e", "x", "i", "t" >>,
      << "i", "n", "f", "o" >>,
      << " ", "e", "x", "i", "t" >>,
      << "a", " ", "e", "x", "i", "t" >>,
      << "a", " ", "i", "n", "f", "o" >>,
      << "e", "x", "i", "t", " ", "a" >> }

\* the next character of a sample line the command buffer is a proper prefix of
SampleCharacterTyped ==
    \E line \in SampleLines :
        /\ Len(command) < Len(line)
        /\ SubSeq(line, 1, Len(command)) = command
        /\ process_events(CharacterEvent(line[Len(command) + 1]), window_size)

InitBuiltins == Fresh([lines |-> MaxHeight, columns |-> WideColumns])

NextBuiltins ==
    \/ SampleCharacterTyped
    \/ ControlCharacterTyped
    \/ InputTimedOut
    \/ ReadFromChildReturns
    \/ ChildWrites
    \/ ChildClosesStdout
    \/ ChildExits
    \/ ControlCHandler

SpecBuiltins == InitBuiltins /\ [][NextBuiltins]_vars

-----------------------------------------------------------------------------
(* What the claims speak of. *)

IsNewline(ev) == ev = CharacterEvent(LineFeed)

\* the text before the first '#'
BeforeComment(text) ==
    LET hashes == {i \in 1..Len(text) : text[i] = "#"}
    IN  IF hashes = {} THEN text
        ELSE SubSeq(text, 1, (CHOOSE i \in hashes : \A j \in hashes : i <= j) - 1)

RECURSIVE Runs(_)
\* the maximal non-empty runs of characters that are not whitespace
Runs(text) ==
    IF text = << >> THEN << >>
    ELSE IF is_whitespace(Head(text)) THEN Runs(Tail(text))
    ELSE LET stops == {i \in 1..Len(text) : is_whitespace(text[i])}
             n == IF stops = {} THEN Len(text)
                  ELSE (CHOOSE i \in stops : \A j \in stops : i <= j) - 1
         IN  << SubSeq(text, 1, n) >> \o Runs(SubSeq(text, n + 1, Len(text)))

\* the tokens of a command line: whitespace separates, '#' starts a comment
Tokens(text) == Runs(BeforeComment(text))

RECURSIVE SplitAtNewlines(_)
\* a text as lines: each line break ends one, and what follows the last is one if not empty
SplitAtNewlines(text) ==
    LET breaks == {i \in 1..Len(text) : text[i] = LineFeed}
    IN  IF breaks = {} THEN (IF text = << >> THEN << >> ELSE << text >>)
        ELSE LET n == CHOOSE i \in breaks : \A j \in breaks : i <= j
             IN  << SubSeq(text, 1, n - 1) >> \o SplitAtNewlines(SubSeq(text, n + 1, Len(text)))

RECURSIVE IsMerge(_, _, _)
\* m holds the elements of a and of b, each in its order, and nothing else
IsMerge(a, b, m) ==
    IF m = << >> THEN a = << >> /\ b = << >>
    ELSE \/ a # << >> /\ Head(a) = Head(m) /\ IsMerge(Tail(a), b, Tail(m))
         \/ b # << >> /\ Head(b) = Head(m) /\ IsMerge(a, Tail(b), Tail(m))

\* whether text begins with start
StartsWith(text, start) ==
    Len(text) >= Len(start) /\ SubSeq(text, 1, Len(start)) = start

RECURSIVE SumWidths(_)
SumWidths(views) ==
    IF views = << >> THEN 0 ELSE Head(views).width + SumWidths(Tail(views))

\* the views of line number i (1-based), in their order
ViewsOfLine(views, i) == SelectSeq(views, LAMBDA view : view.index = i - 1)

\* every line has its views, which hold all of it
ViewsCover(views, all_lines) ==
    \A i \in 1..Len(all_lines) :
        /\ ViewsOfLine(views, i) # << >>
        /\ SumWidths(ViewsOfLine(views, i)) = Len(all_lines[i])

-----------------------------------------------------------------------------
(* C1 to C10. *)

\* C1: from a fresh session in a window wider than the prompt, typing printable
\* characters c1..cn and then newline appends the line "% c1..cn" to the scrollback
\* and leaves the command buffer empty.
C1_TypedLineIsEchoed ==
    (typed # None /\ IsNewline(event)) =>
        /\ Len(lines) >= 1
        /\ lines[1] = prompt \o typed[1]
        /\ command = << >>

DeleteEvents ==
    {KeyEvent("Backspace"), KeyEvent("DeleteCharacter"),
     CharacterEvent(BackSpace), CharacterEvent(DEL), CharacterEvent(EOT)}

\* C2: with the command buffer empty and no child running, a backspace or a
\* delete-forward makes process_events report termination in that cycle.
C2_DeleteAtEmptyPromptTerminates ==
    [][\A ev \in DeleteEvents :
           (command = << >> /\ running_child = None /\ process_events(ev, window_size))
               => (should_exit' /\ pc' = "returned")]_vars

\* C3: while a child exists, no input event changes the command buffer.
C3_NoEditWhileChildRuns ==
    [][running_child # None => command' = command]_vars

\* C4: a cycle never waits in read_from_child on a child that holds its stdout open, so
\* later input events are handled whether or not the child ever closes its output.
C4_DrainNeverWaits ==
    ~(pc = "read" /\ running_child # None /\ running_child[1].stdout_open)

\* C5: when the child goes (running_child becomes None), everything it wrote to its
\* stdout and to its stderr is in the scrollback, split at newlines, in the order written.
C5_ChildOutputDelivered ==
    [][(running_child # None /\ running_child' = None) =>
           IsMerge(SplitAtNewlines(running_child[1].wrote_stdout),
                   SplitAtNewlines(running_child[1].wrote_stderr),
                   SubSeq(lines', running_child[1].first_line + 1, Len(lines')))]_vars

\* C6: while a child is present a newline spawns no second child and does not replace
\* the running one, and it leaves the scrollback, the command buffer and the
\* termination flag as they were; a child is created only when there is none.
C6_OneChildAtATime ==
    [][/\ (running_child # None /\ process_events(CharacterEvent(LineFeed), window_size))
           => /\ spawned' = spawned
              /\ running_child' = None \/ running_child'[1].pid = running_child[1].pid
              /\ lines' = lines
              /\ command' = command
              /\ should_exit' = should_exit
       /\ spawned' # spawned
           => /\ running_child = None
              /\ spawned' = spawned + 1
              /\ running_child' # None /\ running_child'[1].pid = spawned']_vars

\* a newline was handled while a child was present, and the child is still there
C6_Witness ==
    /\ IsNewline(event)
    /\ before.child
    /\ pc = "events"
    /\ running_child # None

\* the command buffer dispatches to an external program
IsExternal(cmd) ==
    /\ parse_command(cmd) # << >>
    /\ parse_command(cmd)[1] \notin {<< "i", "n", "f", "o" >>, << "e", "x", "i", "t" >>}

\* C7: when spawning a dispatched non-built-in command fails, the scrollback gains the
\* command echo and one error line, no child is present, the termination flag stays
\* false, and the line views are rebuilt to cover the new lines.
C7_SpawnFailureIsReported ==
    [][(/\ process_events(CharacterEvent(LineFeed), window_size)
        /\ is_cursor_on_command_prompt(Yesh)
        /\ IsExternal(command)
        /\ spawned' = spawned)
           => /\ Len(lines') = Len(lines) + 2
              /\ SubSeq(lines', 1, Len(lines)) = lines
              /\ lines'[Len(lines) + 1] = prompt \o command
              /\ StartsWith(lines'[Len(lines) + 2], error_message_prefix)
              /\ running_child' = None
              /\ ~should_exit'
              /\ pc' = "events"
              /\ ViewsCover(line_views', lines')]_vars

\* a dispatch ended in the error line, and the session goes on
C7_Witness ==
    /\ IsNewline(event)
    /\ ~before.child
    /\ Len(lines) = 2
    /\ StartsWith(lines[2], error_message_prefix)
    /\ Len(line_views) >= 2
    /\ running_child = None
    /\ pc = "events"

\* C8: parse_command returns the maximal non-empty runs of non-whitespace characters
\* of the text before the first '#': here for the command line of the first echo.
C8_ParseCommandGivesTokens ==
    Len(lines) >= 1 =>
        LET cmd == SubSeq(lines[1], PromptLen + 1, Len(lines[1]))
        IN  parse_command(cmd) = Tokens(cmd)

\* C9: a dispatched line whose first token is exit or info spawns no child; exit makes
\* process_events report termination in that cycle, info appends the banner after the
\* echo; exit or info as a later token is no built-in.
C9_BuiltinsAreFirstTokens ==
    [][(/\ process_events(CharacterEvent(LineFeed), window_size)
        /\ is_cursor_on_command_prompt(Yesh)
        /\ Tokens(command) # << >>)
           => LET first == Tokens(command)[1]
                  echoed == Append(lines, prompt \o command)
              IN  /\ first = << "e", "x", "i", "t" >>
                      => spawned' = spawned /\ should_exit' /\ pc' = "returned"
                  /\ first = << "i", "n", "f", "o" >>
                      => spawned' = spawned /\ lines' = echoed \o SplitAtNewlines(info_message)
                  /\ first \notin {<< "e", "x", "i", "t" >>, << "i", "n", "f", "o" >>}
                      => ~should_exit' /\ Len(lines') <= Len(lines) + 2]_vars

KeyboardEvents ==
    {KeyEvent(key) : key \in EditKeys \cup CursorKeys}
        \cup {CharacterEvent(c) : c \in Printable \cup ControlCharacters}

\* C10: cancellation is acted upon only in a cycle without a keyboard event (a cycle
\* on a keyboard event ends as it would with the flag down), and acting upon it changes
\* nothing: the scrollback, the command buffer, the scroll offset and the termination
\* flag stay, and the child stays unless it has exited by itself.
C10_CancellationIsANoOp ==
    [][/\ (control_c_semaphore /\ process_events(TimeoutEvent, window_size))
           => /\ lines' = lines
              /\ command' = command
              /\ scroll_offset' = scroll_offset
              /\ should_exit' = should_exit
              /\ spawned' = spawned
              /\ running_child' = IF running_child # None /\ running_child[1].exited
                                  THEN None ELSE running_child
       /\ (/\ control_c_semaphore
           /\ event' \in KeyboardEvents
           /\ process_events(event', window_size))
           => \E spawn \in spawn_results_for(event') :
                  Yesh' = [run_cycle([Yesh EXCEPT !.control_c_semaphore = FALSE],
                                     event', window_size, spawn)
                              EXCEPT !.control_c_semaphore = TRUE, !.panicked = FALSE]]_vars

\* a timeout cycle found the flag raised while a child was running, and the child stays
C10_Witness ==
    /\ event = TimeoutEvent
    /\ before.control_c
    /\ before.child
    /\ running_child # None
    /\ pc = "events"

-----------------------------------------------------------------------------
(* C11 to C20. *)

\* C11: a cycle that finds the cancellation flag raised (a timeout, no keyboard event)
\* consumes it: the flag is false after that cycle.
C11_CancellationIsConsumed ==
    [][(control_c_semaphore /\ process_events(TimeoutEvent, window_size))
           => ~control_c_semaphore']_vars

-----------------------------------------------------------------------------
(* The View Builder on its own: rebuild_line_views and handle_resize applied to any  *)
(* scrollback of up to MaxScrollback lines of up to MaxLineLength characters, in any *)
(* window at least one column wide.                                                 *)

\* a scrollback line holds at most this many characters
MaxLineLength == 9
\* the scrollback holds at most this many lines
MaxScrollback == 2

\* the text a b a b .. of length n
Buffer(n) == [i \in 1..n |-> IF i % 2 = 1 THEN "a" ELSE "b"]

\* the sequences over a set of at most n elements
SeqUpTo(set, n) == UNION {[1..k -> set] : k \in 0..n}

\* the view builder looks at the lengths of the lines only
Scrollbacks == SeqUpTo({Buffer(n) : n \in 0..MaxLineLength}, MaxScrollback)

\* every positive width, also those the prompt does not fit in
AllSizes == [lines : {MaxHeight}, columns : 1..MaxWidth]

\* a call of a function of Yesh by itself, outside process_events
CallEvent(name) == [kind |-> "Call", key |-> name, character |-> ""]

\* a Yesh with the given scrollback and command buffer, its views not yet built
Unbuilt(size, all_lines, cmd) ==
    /\ window_size = size
    /\ command = cmd
    /\ command_views = << >>
    /\ lines = all_lines
    /\ line_views = << >>
    /\ cursor_position = [x |-> PromptLen, y |-> 0]
    /\ scroll_offset = 0
    /\ control_c_semaphore = FALSE
    /\ should_exit = FALSE
    /\ running_child = None
    /\ pc = "events"
    /\ spawned = 0
    /\ event = NoEvent
    /\ before = [child |-> FALSE, control_c |-> FALSE]
    /\ typed = None

InitLineViews ==
    \E size \in AllSizes, all_lines \in Scrollbacks : Unbuilt(size, all_lines, << >>)

RebuildLineViews ==
    /\ event = NoEvent
    /\ Store(rebuild_line_views(Yesh))
    /\ event' = CallEvent("rebuild_line_views")
    /\ UNCHANGED <<before, typed>>

ResizeLineViews ==
    /\ \E size \in AllSizes \ {window_size} : Store(handle_resize(Yesh, size))
    /\ event' = CallEvent("handle_resize")
    /\ UNCHANGED <<before, typed>>

NextLineViews ==
    \/ RebuildLineViews
    \/ ResizeLineViews

SpecLineViews == InitLineViews /\ [][NextLineViews]_vars

RECURSIVE Slices(_, _)
\* the slices [offset, offset + width) of a line that the views name, one after the other
Slices(line, views) ==
    IF views = << >> THEN << >>
    ELSE SubSeq(line, Head(views).offset + 1, Head(views).offset + Head(views).width)
             \o Slices(line, Tail(views))

\* the views of one line: offsets contiguous from 0, widths at most columns and summing
\* to the length, rows consecutive, and the slices giving the line back
ViewsSliceLine(views, line, columns) ==
    /\ \A k \in 1..Len(views) :
           /\ views[k].offset = (IF k = 1 THEN 0 ELSE views[k - 1].offset + views[k - 1].width)
           /\ views[k].width <= columns
           /\ k > 1 => views[k].y = views[k - 1].y + 1
    /\ SumWidths(views) = Len(line)
    /\ Slices(line, views) = line

\* C12: rebuild_line_views gives every line views with contiguous offsets from 0, widths
\* at most the window width and summing to the line's length, on consecutive rows, the
\* rows increasing in scrollback order across lines, and the slices of the views put
\* together are the line.
C12_LineViewsSliceLines ==
    event.kind = "Call" =>
        /\ \A k \in 1..Len(line_views) : line_views[k].index \in 0..(Len(lines) - 1)
        /\ \A i \in 1..Len(lines) :
               ViewsSliceLine(ViewsOfLine(line_views, i), lines[i], window_size.columns)
        /\ \A j, k \in 1..Len(line_views) :
               line_views[j].index < line_views[k].index => line_views[j].y < line_views[k].y

\* two lines have been wrapped, the first over more than one row
C12_Witness ==
    /\ event.kind = "Call"
    /\ Len(lines) = 2
    /\ Len(lines[1]) > window_size.columns
    /\ Len(ViewsOfLine(line_views, 1)) >= 2
    /\ Len(ViewsOfLine(line_views, 2)) >= 1
    /\ lines[1] # lines[2]

-----------------------------------------------------------------------------
(* The command views on their own: rebuild_command_views applied to any command     *)
(* buffer of up to MaxBuffer characters under any built scrollback, in any window    *)
(* wider than the prompt, and again after handle_resize has changed the width.       *)

\* the command buffer holds at most this many characters
MaxBuffer == 6

\* the widths the prompt fits in with room to spare
WiderSizes == [lines : {MaxHeight}, columns : (PromptLen + 1)..MaxWidth]

InitCommandViews ==
    \E size \in WiderSizes, n \in 0..MaxBuffer, all_lines \in Scrollbacks :
        Unbuilt(size, all_lines, Buffer(n))

\* rebuild_command_views, called once the line views stand
RebuildCommandViews ==
    /\ event # NoEvent
    /\ event # CallEvent("rebuild_command_views")
    /\ Store(rebuild_command_views(Yesh))
    /\ event' = CallEvent("rebuild_command_views")
    /\ UNCHANGED <<before, typed>>

ResizeWider ==
    /\ event # NoEvent
    /\ \E size \in WiderSizes \ {window_size} : Store(handle_resize(Yesh, size))
    /\ event' = CallEvent("handle_resize")
    /\ UNCHANGED <<before, typed>>

NextCommandViews ==
    \/ RebuildLineViews
    \/ RebuildCommandViews
    \/ ResizeWider

SpecCommandViews == InitCommandViews /\ [][NextCommandViews]_vars

\* the command views have just been built from the buffer, the width and the line views
CommandViewsFresh == event = CallEvent("rebuild_command_views")

\* the columns the command row number k (1-based) has for characters, and where they start
CommandRowStart(k) == IF k = 1 THEN PromptLen ELSE 0

\* the screen position of offset i of the command buffer under the command views: in the
\* view that holds i; the end of the buffer directly after the last character, on the
\* next row when the last row is full
PositionOfOffset(i) ==
    LET holds == {k \in 1..Len(command_views) :
                      /\ command_views[k].offset <= i
                      /\ i < command_views[k].offset + command_views[k].width}
        last  == Len(command_views)
    IN  IF holds # {}
        THEN LET k == CHOOSE k \in holds : TRUE
             IN  [x |-> i - command_views[k].offset + CommandRowStart(k),
                  y |-> command_views[k].y]
        ELSE IF CommandRowStart(last) + command_views[last].width = window_size.columns
             THEN [x |-> 0, y |-> command_views[last].y + 1]
             ELSE [x |-> i - command_views[last].offset + CommandRowStart(last),
                   y |-> command_views[last].y]

\* C13: with freshly rebuilt command views, the cursor placed at the screen position of
\* any offset i in 0..len(C) makes command_index_at_cursor return i.
C13_IndexAtCursorInvertsPosition ==
    CommandViewsFresh =>
        \A i \in 0..Len(command) :
            command_index_at_cursor([Yesh EXCEPT !.cursor_position = PositionOfOffset(i)])
                = Some(i)

\* the row the command starts on: one past the last line view, 0 without line views
FirstCommandRow ==
    IF line_views = << >> THEN 0 ELSE line_views[Len(line_views)].y + 1

\* C16: rebuild_command_views gives views with contiguous offsets from 0 and widths
\* summing to len(C), the first at most W - P wide and every later one at most W, on
\* consecutive rows from one past the last line-view row (row 0 without scrollback);
\* this also after only the width has changed, every character being covered once.
C16_CommandViewsSliceCommand ==
    CommandViewsFresh =>
        /\ \A k \in 1..Len(command_views) :
               /\ command_views[k].offset =
                      (IF k = 1 THEN 0
                       ELSE command_views[k - 1].offset + command_views[k - 1].width)
               /\ command_views[k].width <= window_size.columns - CommandRowStart(k)
               /\ command_views[k].y = FirstCommandRow + k - 1
        /\ SumWidths(command_views) = Len(command)
        /\ Slices(command, command_views) = command
        /\ lines = << >> => \A k \in 1..Len(command_views) : command_views[k].y = k - 1

\* a buffer longer than two rows has been wrapped under a scrollback
C16_Witness ==
    /\ CommandViewsFresh
    /\ Len(command) = MaxBuffer
    /\ Len(command_views) >= 3
    /\ lines # << >>
    /\ window_size.columns = PromptLen + 1
    /\ command_views[1].width = 1

-----------------------------------------------------------------------------
(* A session of typing one letter, moving the cursor, deleting and dispatching,     *)
(* with the child beside it and the window resized at any time.                     *)

LetterTyped ==
    /\ Len(command) < MaxCommand
    /\ scroll_offset < MaxScroll
    /\ process_events(CharacterEvent("a"), window_size)

\* a newline that would dispatch is typed only while the scrollback is short
NewlineTyped ==
    /\ running_child = None => Len(lines) < MaxLines
    /\ process_events(CharacterEvent(LineFeed), window_size)

NextResize ==
    \/ WindowResized
    \/ CursorKeyPressed
    \/ LetterTyped
    \/ NewlineTyped
    \/ EditKeyPressed
    \/ InputTimedOut
    \/ ReadFromChildReturns
    \/ ChildWrites
    \/ ChildClosesStdout
    \/ ChildExits

SpecResize == Init /\ [][NextResize]_vars

\* process_events has returned at least once, and is not inside a call
CycleEnded == event # NoEvent /\ pc \in {"events", "returned"}

\* C14: at the end of every cycle the stored command views are what rebuild_command_views
\* gives from the command buffer, the window width and the line views as they are then.
C14_CommandViewsAreCurrent ==
    CycleEnded => command_views = rebuild_command_views(Yesh).command_views

\* C15: after every cycle the cursor row is visible:
\* scroll_offset <= cursor row < scroll_offset + window height.
C15_CursorRowIsVisible ==
    CycleEnded =>
        /\ scroll_offset <= cursor_position.y
        /\ cursor_position.y < scroll_offset + window_size.lines

\* C17: a zero-length scrollback line gets no line view and takes no row.
C17_EmptyLineHasNoView ==
    \A k \in 1..Len(line_views) : Len(lines[line_views[k].index + 1]) > 0

\* C18: at the end of every cycle the stored line views are rebuild_line_views of the
\* scrollback and the window width as they are then.
C18_LineViewsAreCurrent ==
    CycleEnded => line_views = rebuild_line_views(Yesh).line_views

\* a cycle has drained child output into the scrollback after an echo that takes two
\* rows, and the views show both lines
C18_Witness ==
    /\ CycleEnded
    /\ Len(lines) = 2
    /\ Len(lines[1]) > window_size.columns
    /\ lines[2] = << "o" >>
    /\ Len(line_views) = 3

\* the user is editing: no child, current command views, and the cursor at an offset of
\* the command buffer
Editing ==
    /\ running_child = None
    /\ command_views = rebuild_command_views(Yesh).command_views
    /\ is_cursor_on_command_prompt(Yesh)
    /\ command_index_at_cursor(Yesh) # None

\* C19: a resize during editing leaves the command buffer as it was, and the offset
\* command_index_at_cursor gives for the cursor after the cycle is the one it gave before.
C19_ResizeKeepsOffset ==
    [][\A size \in Sizes :
           (Editing /\ process_events(KeyEvent("ResizeEvent"), size))
               => /\ command' = command
                  /\ command_index_at_cursor(Yesh') = command_index_at_cursor(Yesh)]_vars

\* C20: with a non-empty command buffer and the cursor at the end of the buffer (offset
\* len(C)), a delete-forward completes without a fault and leaves the command buffer,
\* the cursor and the views as they were.
C20_DeleteAtEndIsANoOp ==
    [][\A ev \in {KeyEvent("DeleteCharacter"), CharacterEvent(EOT)} :
           (/\ running_child = None
            /\ command # << >>
            /\ command_index_at_cursor(Yesh) = Some(Len(command))
            /\ process_events(ev, window_size))
               => /\ pc' = "events"
                  /\ command' = command
                  /\ cursor_position' = cursor_position
                  /\ command_views' = command_views
                  /\ line_views' = line_views]_vars

-----------------------------------------------------------------------------
(* C21 to C23. *)

\* C21: a move left with the cursor on the first editable column of the first command
\* row (offset 0, the column after the prompt) is a no-op: the cursor keeps its column
\* and row, and the scroll offset stays.
C21_LeftAtBufferStartIsANoOp ==
    [][(/\ running_child = None
        /\ cursor_position = [x |-> PromptLen, y |-> FirstCommandRow]
        /\ command_index_at_cursor(Yesh) = Some(0)
        /\ process_events(KeyEvent("LeftArrow"), window_size))
           => /\ cursor_position' = cursor_position
              /\ scroll_offset' = scroll_offset]_vars

\* C22: with the cursor on row 0, an UpArrow leaves the cursor on row 0 and the scroll
\* offset as it was.
C22_UpAtRowZeroIsANoOp ==
    [][(cursor_position.y = 0 /\ process_events(KeyEvent("UpArrow"), window_size))
           => /\ cursor_position'.y = 0
              /\ scroll_offset' = scroll_offset]_vars

\* C23: with the cursor inside the prompt of the first command row (a column below the
\* prompt width), command_index_at_cursor gives None and a printable character typed
\* there is dropped: the command buffer is unchanged by that event.
C23_TypingOnPromptIsDropped ==
    [][(/\ is_cursor_on_command_prompt(Yesh)
        /\ cursor_position.y = FirstCommandRow
        /\ cursor_position.x < PromptLen
        /\ process_events(CharacterEvent("a"), window_size))
           => /\ command_index_at_cursor(Yesh) = None
              /\ command' = command]_vars

====
